---- MODULE Spec2Model ----
(***************************************************************************)
(* A model of wayland-random-wallpaper (src/src/main.rs).                  *)
(*                                                                         *)
(* One run of the program is: read the cache file, scan the wallpaper      *)
(* directory, pick a random candidate, spawn the wallpaper changer, write  *)
(* the cache file, send a notification.  Every file-system or process      *)
(* operation is one action, so that runs of two instances can interleave.  *)
(*                                                                         *)
(* Strings and OS strings are sequences of one-character strings.  Two     *)
(* extra symbols stand for what a Rust String cannot or can hold:          *)
(*   XFF    a byte that is not valid UTF-8 (legal in a Unix file name),    *)
(*   UFFFD  the character U+FFFD that to_string_lossy puts in its place.   *)
(***************************************************************************)
EXTENDS Naturals, Sequences, FiniteSets, TLC

VARIABLES
    dir,          \* the wallpaper directory: a set of entries [name, kind]
    cache,        \* the cache file: [exists, openable, bytes]
    memImage,     \* history: the image whose update_cache last completed
    pc,           \* per instance: where main() is
    prev,         \* per instance: previous_wallpaper (main.rs:209)
    listing,      \* history, per instance: the entries read_dir returned
    pool,         \* per instance: possible_wallpapers (main.rs:211)
    selected,     \* per instance: selected_file (main.rs:224)
    status,       \* per instance: the changer's exit status (main.rs:139)
    notice,       \* per instance: the notification this run dispatched
    fatal,        \* per instance: which expect_or_log panicked
    cacheAtRead,  \* history, per instance: the cache file when it was read
    repeated,     \* history, per instance: the changer was handed memImage
    log           \* history, per instance: the steps of this run, in order

vars == <<dir, cache, memImage, pc, prev, listing, pool, selected, status,
          notice, fatal, cacheAtRead, repeated, log>>

----------------------------------------------------------------------------
(* Bounds *)

\* The most entries the wallpaper directory holds at a time.
MaxEntries == 2

\* The most bytes a failed write_all has put in the file before it failed.
MaxPartial == 1

\* The instances that may run; Spec runs one at a time, ConcSpec overlaps them.
Procs == {1, 2}

----------------------------------------------------------------------------
(* Characters, names and directory entries *)

XFF == "xFF"
UFFFD == "uFFFD"

\* The resolved wallpaper directory (an absolute path after tilde expansion).
WallDir == <<"/", "w">>

Entry(n, k) == [name |-> n, kind |-> k]

APng == <<"a", ".", "p", "n", "g">>
BJpg == <<"b", ".", "j", "p", "g">>
XPng == <<XFF, ".", "p", "n", "g">>

\* The directory entries the model draws directory contents from.
Universe ==
    { Entry(APng, "file"),
      Entry(BJpg, "file"),
      Entry(XPng, "file"),
      Entry(<<"c", ".", "P", "N", "G">>, "file"),
      Entry(<<"a", ".", "t", "x", "t">>, "file"),
      Entry(<<"b">>, "file"),
      Entry(<<".", "p", "n", "g">>, "file"),
      Entry(<<"a", ".", "p", "n", XFF>>, "file"),
      Entry(<<"d", ".", "g", "i", "f">>, "file"),
      Entry(<<"d", ".", "g", "i", "f">>, "dir"),
      Entry(<<"e", ".", "b", "m", "p">>, "symlink_file"),
      Entry(<<"f", ".", "j", "p", "e", "g">>, "file"),
      Entry(<<"f", ".", "j", "p", "e", "g">>, "symlink_dangling") }

\* A directory holds at most one entry of a name.
DirsOf(entries) ==
    { d \in SUBSET entries :
        /\ Cardinality(d) <= MaxEntries
        /\ \A x \in d : \A y \in d : x.name = y.name => x = y }

Dirs == DirsOf(Universe)

\* The directories two overlapping instances are followed on.
ConcDirs ==
    DirsOf({ Entry(APng, "file"), Entry(BJpg, "file"), Entry(XPng, "file"),
             Entry(<<"a", ".", "t", "x", "t">>, "file") })

----------------------------------------------------------------------------
(* std::path, as far as the program uses it *)

\* The pieces of a path between its separators.
RECURSIVE Split(_)
Split(s) ==
    IF s = <<>> THEN << <<>> >>
    ELSE LET rest == Split(Tail(s))
         IN  IF Head(s) = "/"
             THEN << <<>> >> \o rest
             ELSE << <<Head(s)>> \o Head(rest) >> \o Tail(rest)

HasRoot(s) == Len(s) > 0 /\ s[1] = "/"

\* Path::components: repeated and trailing separators vanish, and so does
\* every "." that is not the first component of a relative path.
RECURSIVE KeepComps(_, _)
KeepComps(segs, i) ==
    IF i > Len(segs) THEN <<>>
    ELSE LET c == segs[i]
             kept == c # <<>> /\ (c # <<".">> \/ i = 1)
         IN  (IF kept THEN <<c>> ELSE <<>>) \o KeepComps(segs, i + 1)

Components(s) == KeepComps(Split(s), 1)

\* Mutant of PathEq: Path::starts_with in place of ==, which the empty path
\* satisfies for every path.
PathStartsWith(a, b) ==
    LET ca == (IF HasRoot(a) THEN << <<"/">> >> ELSE <<>>) \o Components(a)
        cb == (IF HasRoot(b) THEN << <<"/">> >> ELSE <<>>) \o Components(b)
    IN  Len(cb) <= Len(ca) /\ SubSeq(ca, 1, Len(cb)) = cb

\* PartialEq between PathBuf and Path compares the components.
PathEq(a, b) == HasRoot(a) = HasRoot(b) /\ Components(a) = Components(b)

\* PathBuf::join of a directory path and a file name.
Join(d, n) == d \o <<"/">> \o n

\* Path::file_name: the last component, unless it is "..": <<>> is None.
file_name(p) ==
    LET cs == Components(p)
    IN  IF cs = <<>> \/ cs[Len(cs)] = <<".", ".">> \/ cs[Len(cs)] = <<".">>
        THEN <<>> ELSE cs[Len(cs)]

\* The index of the last "." of a name, 0 when it has none.
LastDot(n) ==
    LET dots == {i \in 1..Len(n) : n[i] = "."}
    IN  IF dots = {} THEN 0 ELSE CHOOSE i \in dots : \A j \in dots : j <= i

\* Path::extension: [some, ext]. None without a file name, without a ".",
\* or when the only "." starts the name.
extension(p) ==
    LET n == file_name(p)
        k == LastDot(n)
    IN  IF n = <<>> \/ k <= 1
        THEN [some |-> FALSE, ext |-> <<>>]
        ELSE [some |-> TRUE, ext |-> SubSeq(n, k + 1, Len(n))]

\* OsStr::to_str succeeds on valid UTF-8 only.
IsUtf8(s) == \A i \in 1..Len(s) : s[i] # XFF

\* Path::to_string_lossy: every invalid byte becomes U+FFFD.
to_string_lossy(p) == [i \in 1..Len(p) |-> IF p[i] = XFF THEN UFFFD ELSE p[i]]

----------------------------------------------------------------------------
(* The program's pure functions *)

ImageExtensions ==
    { <<"j", "p", "g">>, <<"j", "p", "e", "g">>, <<"p", "n", "g">>,
      <<"g", "i", "f">>, <<"b", "m", "p">> }

\* Mutant of is_image: the extension is compared without regard to case.
is_image_any_case(path) ==
    LET e == extension(path)
        lower(c) == CASE c = "P" -> "p" [] c = "N" -> "n" [] c = "G" -> "g"
                      [] OTHER -> c
    IN  e.some /\ IsUtf8(e.ext)
        /\ [i \in 1..Len(e.ext) |-> lower(e.ext[i])] \in ImageExtensions

\* is_image: the extension, as a str, is one of the five lowercase names.
is_image(path) ==
    LET e == extension(path)
    IN  e.some /\ IsUtf8(e.ext) /\ e.ext \in ImageExtensions

\* Path::is_file: the metadata of the path, symbolic links followed, is that
\* of a regular file; a failed metadata call (a dangling link) is false.
is_file(entry) == entry.kind \in {"file", "symlink_file"}

\* Mutant of get_possible_wallpapers: the last filter is missing.
get_possible_wallpapers_no_exclusion(previous_wallpaper, entries) ==
    { f \in { Join(WallDir, e.name) : e \in { x \in entries : is_file(x) } } :
        is_image(f) }

\* get_possible_wallpapers, once read_dir has opened the directory: the
\* paths of the entries, kept if is_file, if is_image and if different (as
\* paths) from the previous wallpaper.  The Vec is in directory order, which
\* nothing later depends on but the index drawn: a set here.
get_possible_wallpapers(previous_wallpaper, entries) ==
    { f \in { Join(WallDir, e.name) : e \in { x \in entries : is_file(x) } } :
        is_image(f) /\ ~PathEq(f, previous_wallpaper) }

\* Mutant of get_previously_used_wallpaper: the file is never read.
get_previously_used_wallpaper_unread(c, ioerr) == [ok |-> TRUE, value |-> <<>>]

\* get_previously_used_wallpaper: [ok, value].  A file that cannot be opened
\* (absent, or no permission) gives the empty string; an opened file whose
\* read fails (an I/O error, or bytes that are not UTF-8) panics.
get_previously_used_wallpaper(c, ioerr) ==
    IF c.exists /\ c.openable
    THEN IF ioerr \/ ~IsUtf8(c.bytes)
         THEN [ok |-> FALSE, value |-> <<>>]
         ELSE [ok |-> TRUE, value |-> c.bytes]
    ELSE [ok |-> TRUE, value |-> <<>>]

\* choose_random_wallpaper: an index drawn uniformly from 0..len-1, so any
\* element of the candidates may come out.
choose_random_wallpaper(possible_wallpapers) == possible_wallpapers

\* get_file_name: the file name, lossily converted; <<>> stands for the panic.
get_file_name(selected_file) ==
    IF file_name(selected_file) = <<>> THEN <<>>
    ELSE to_string_lossy(file_name(selected_file))

\* What update_cache writes: the UTF-8 bytes of the lossily converted path.
cache_bytes(file_path) == to_string_lossy(file_path)

\* File::create truncates an existing file (its permissions stay), or makes
\* a new one the owner can read; write_all then puts the bytes in it.
written_file(old, bytes) ==
    [exists |-> TRUE,
     openable |-> IF old.exists THEN old.openable ELSE TRUE,
     bytes |-> bytes]

----------------------------------------------------------------------------
(* State *)

NoPath == <<>>

Absent == [exists |-> FALSE, openable |-> FALSE, bytes |-> <<>>]

File(openable, bytes) == [exists |-> TRUE, openable |-> openable, bytes |-> bytes]

\* What the cache file may be before the first run: absent, a file of an
\* earlier run, the same path spelled with a doubled separator, a bare file
\* name, a file the user may not read, a file that is not UTF-8.
InitCaches ==
    { Absent,
      File(TRUE, Join(WallDir, APng)),
      File(TRUE, WallDir \o <<"/", "/">> \o APng),
      File(TRUE, APng),
      File(FALSE, Join(WallDir, APng)),
      File(TRUE, <<XFF>>) }

\* main has returned (exit status 0), or a panic has ended it (non-zero).
Ended == {"done", "panicked"}

InitFrom(dirs, caches) ==
    /\ dir \in dirs
    /\ cache \in caches
    /\ memImage = NoPath
    /\ pc = [p \in Procs |-> "idle"]
    /\ prev = [p \in Procs |-> <<>>]
    /\ listing = [p \in Procs |-> {}]
    /\ pool = [p \in Procs |-> {}]
    /\ selected = [p \in Procs |-> NoPath]
    /\ status = [p \in Procs |-> "none"]
    /\ notice = [p \in Procs |-> "none"]
    /\ fatal = [p \in Procs |-> "none"]
    /\ cacheAtRead = [p \in Procs |-> Absent]
    /\ repeated = [p \in Procs |-> FALSE]
    /\ log = [p \in Procs |-> <<>>]

Init == InitFrom(Dirs, InitCaches)

\* Two instances are followed from the two ordinary states of the cache file.
ConcInit == InitFrom(ConcDirs, {Absent, File(TRUE, Join(WallDir, APng))})

\* expect_or_log on an Err or a None: the process panics, the run is over.
Panic(p, why) ==
    /\ pc' = [pc EXCEPT ![p] = "panicked"]
    /\ fatal' = [fatal EXCEPT ![p] = why]

Step(p, to, event) ==
    /\ pc' = [pc EXCEPT ![p] = to]
    /\ log' = [log EXCEPT ![p] = Append(@, event)]

----------------------------------------------------------------------------
(* The steps of main *)

\* A process starts at the top of main.
Begin(p) ==
    /\ pc[p] = "idle"
    /\ pc' = [pc EXCEPT ![p] = "main"]
    /\ UNCHANGED <<dir, cache, memImage, prev, listing, pool, selected, status,
                   notice, fatal, cacheAtRead, repeated, log>>

\* The process is gone, and with it everything but the files.
Exit(p) ==
    /\ pc[p] \in Ended
    /\ pc' = [pc EXCEPT ![p] = "idle"]
    /\ prev' = [prev EXCEPT ![p] = <<>>]
    /\ listing' = [listing EXCEPT ![p] = {}]
    /\ pool' = [pool EXCEPT ![p] = {}]
    /\ selected' = [selected EXCEPT ![p] = NoPath]
    /\ status' = [status EXCEPT ![p] = "none"]
    /\ notice' = [notice EXCEPT ![p] = "none"]
    /\ fatal' = [fatal EXCEPT ![p] = "none"]
    /\ cacheAtRead' = [cacheAtRead EXCEPT ![p] = Absent]
    /\ repeated' = [repeated EXCEPT ![p] = FALSE]
    /\ log' = [log EXCEPT ![p] = <<>>]
    /\ UNCHANGED <<dir, cache, memImage>>

\* The external timer starts the one instance, after the run before it ended.
StartSolo ==
    /\ \A q \in Procs : q # 1 => pc[q] = "idle"
    /\ Begin(1)

\* An instance starts whatever the other one is doing.
StartAny(p) == Begin(p)

\* main.rs:209, get_previously_used_wallpaper.
ReadCache(p) ==
    /\ pc[p] = "main"
    /\ \E ioerr \in BOOLEAN :
         LET r == get_previously_used_wallpaper(cache, ioerr)
         IN  IF r.ok
             THEN /\ prev' = [prev EXCEPT ![p] = r.value]
                  /\ Step(p, "read", "read")
                  /\ UNCHANGED fatal
             ELSE /\ Panic(p, "read")
                  /\ UNCHANGED <<prev, log>>
    /\ cacheAtRead' = [cacheAtRead EXCEPT ![p] = cache]
    /\ UNCHANGED <<dir, cache, memImage, listing, pool, selected, status, notice,
                   repeated>>

\* main.rs:211, get_possible_wallpapers: read_dir fails and panics, or the
\* entries are filtered into the candidates.
ScanDir(p) ==
    /\ pc[p] = "read"
    /\ \E readable \in BOOLEAN :
         IF readable
         THEN /\ listing' = [listing EXCEPT ![p] = dir]
              /\ pool' = [pool EXCEPT ![p] = get_possible_wallpapers(prev[p], dir)]
              /\ Step(p, "scanned", "scan")
              /\ UNCHANGED fatal
         ELSE /\ Panic(p, "dir")
              /\ UNCHANGED <<listing, pool, log>>
    /\ UNCHANGED <<dir, cache, memImage, prev, selected, status, notice,
                   cacheAtRead, repeated>>

\* Mutant of after_notification: the result of show() is unwrapped.
after_notification_unwrap(shown) == IF shown THEN "done" ELSE "panicked"

\* send_notification after show(): an Err is logged, and the function returns.
after_notification(shown) == "done"

\* Mutant of NoCandidates: with nothing else to show, the previous wallpaper
\* is selected again.
NoCandidatesFallback(p) ==
    /\ pc[p] = "scanned"
    /\ pool[p] = {}
    /\ selected' = [selected EXCEPT ![p] = prev[p]]
    /\ Step(p, "chosen", "pick")
    /\ UNCHANGED <<dir, cache, memImage, prev, listing, pool, status, notice,
                   fatal, cacheAtRead, repeated>>

\* main.rs:214-222: no candidates, a sticky notice (best effort), return.
NoCandidates(p) ==
    /\ pc[p] = "scanned"
    /\ pool[p] = {}
    /\ \E shown \in BOOLEAN :
         /\ notice' = [notice EXCEPT ![p] =
                         IF shown THEN "nocand_shown" ELSE "nocand_failed"]
         /\ Step(p, after_notification(shown), "nocand")
    /\ UNCHANGED <<dir, cache, memImage, prev, listing, pool, selected, status,
                   fatal, cacheAtRead, repeated>>

\* main.rs:224, choose_random_wallpaper.
Choose(p) ==
    /\ pc[p] = "scanned"
    /\ pool[p] # {}
    /\ \E f \in choose_random_wallpaper(pool[p]) :
         selected' = [selected EXCEPT ![p] = f]
    /\ Step(p, "chosen", "pick")
    /\ UNCHANGED <<dir, cache, memImage, prev, listing, pool, status, notice,
                   fatal, cacheAtRead, repeated>>

\* Mutant of after_status: the exit status is not looked at.
after_status_ignored(st) == "applied"

\* The branch of apply_new_wallpaper on the exit status (main.rs:141).
after_status(st) == IF st = "success" THEN "applied" ELSE "done"

\* main.rs:139, execute_wallpaper_changer: the spawn fails and panics, or the
\* changer runs to its end and its status decides what follows.
Execute(p) ==
    /\ pc[p] = "chosen"
    /\ \E outcome \in {"spawn_failed", "success", "failure"} :
         IF outcome = "spawn_failed"
         THEN /\ Panic(p, "spawn")
              /\ UNCHANGED <<status, repeated, log>>
         ELSE /\ status' = [status EXCEPT ![p] = outcome]
              /\ repeated' = [repeated EXCEPT ![p] =
                                outcome = "success" /\ selected[p] = memImage]
              /\ Step(p, after_status(outcome), "exec_" \o outcome)
              /\ UNCHANGED fatal
    /\ UNCHANGED <<dir, cache, memImage, prev, listing, pool, selected, notice,
                   cacheAtRead>>

\* The strict prefixes of what was to be written: a failed write_all leaves
\* the truncated file with one of them.
Prefixes(bytes) ==
    { SubSeq(bytes, 1, k) : k \in { j \in 0..MaxPartial : j < Len(bytes) } }

\* Mutant of after_failed_write: the error is dropped, the run goes on.
after_failed_write_ignored(p, why) ==
    /\ pc' = [pc EXCEPT ![p] = "cached"]
    /\ UNCHANGED fatal

\* update_cache on an Err of File::create or write_all: expect_or_log panics.
after_failed_write(p, why) == Panic(p, why)

\* main.rs:142, update_cache: File::create fails and panics; or it truncates
\* the file and write_all fails and panics; or the bytes are written.
UpdateCache(p) ==
    /\ pc[p] = "applied"
    /\ \E outcome \in {"create_failed", "write_failed", "written"} :
         CASE outcome = "create_failed" ->
                /\ after_failed_write(p, "create")
                /\ UNCHANGED <<cache, memImage, log>>
           [] outcome = "write_failed" ->
                /\ \E part \in Prefixes(cache_bytes(selected[p])) :
                     cache' = written_file(cache, part)
                /\ memImage' = NoPath
                /\ after_failed_write(p, "write")
                /\ UNCHANGED log
           [] outcome = "written" ->
                /\ cache' = written_file(cache, cache_bytes(selected[p]))
                /\ memImage' = selected[p]
                /\ Step(p, "cached", "write")
                /\ UNCHANGED fatal
    /\ UNCHANGED <<dir, prev, listing, pool, selected, status, notice,
                   cacheAtRead, repeated>>

\* main.rs:143, send_wallpaper_changed_notification: get_file_name panics on
\* a path without a file name; a failed show() is logged and nothing more.
Notify(p) ==
    /\ pc[p] = "cached"
    /\ IF get_file_name(selected[p]) = <<>>
       THEN /\ Panic(p, "file_name")
            /\ UNCHANGED <<notice, log>>
       ELSE /\ \E shown \in BOOLEAN :
                 /\ notice' = [notice EXCEPT ![p] =
                                 IF shown THEN "changed_shown" ELSE "changed_failed"]
                 /\ Step(p, after_notification(shown),
                         IF shown THEN "notify_shown" ELSE "notify_failed")
            /\ UNCHANGED fatal
    /\ UNCHANGED <<dir, cache, memImage, prev, listing, pool, selected, status,
                   cacheAtRead, repeated>>

\* Between runs the user adds, removes or replaces wallpapers.
ChangeDir ==
    /\ \A p \in Procs : pc[p] = "idle"
    /\ dir' \in Dirs \ {dir}
    /\ UNCHANGED <<cache, memImage, pc, prev, listing, pool, selected, status,
                   notice, fatal, cacheAtRead, repeated, log>>

Run(p) ==
    \/ ReadCache(p)
    \/ ScanDir(p)
    \/ NoCandidates(p)
    \/ Choose(p)
    \/ Execute(p)
    \/ UpdateCache(p)
    \/ Notify(p)
    \/ Exit(p)

\* Runs that do not overlap: the usage the program is written for.
Next ==
    \/ StartSolo
    \/ ChangeDir
    \/ \E p \in Procs : Run(p)

Spec == Init /\ [][Next]_vars

\* Two instances started independently, on a directory that stays as it is.
ConcNext ==
    \/ \E p \in Procs : StartAny(p)
    \/ \E p \in Procs : Run(p)

ConcSpec == ConcInit /\ [][ConcNext]_vars

----------------------------------------------------------------------------
(* What the claims speak of *)

InLog(p, event) == \E i \in 1..Len(log[p]) : log[p][i] = event

Scanned(p) == InLog(p, "scan")

\* Event a comes before position i of the log of p.
Before(p, a, i) == \E j \in 1..(i - 1) : log[p][j] = a

PathOf(e) == Join(WallDir, e.name)

\* A name ends in "." and one of the five extensions, after at least one
\* other character.
HasImageExtension(n) ==
    \E x \in ImageExtensions :
        /\ Len(n) > Len(x) + 1
        /\ SubSeq(n, Len(n) - Len(x), Len(n)) = <<".">> \o x

\* The qualifying images of a listing: what passes is_file and is_image.
Qualifying(entries) ==
    { PathOf(e) : e \in { x \in entries : is_file(x) /\ is_image(PathOf(x)) } }

----------------------------------------------------------------------------
(* C1 *)

\* C1: once an instance has scanned, its candidate pool is the qualifying
\* images of the listing it saw minus the one whose path equals the previous
\* selection it read: no candidate equals (as a path) the previous selection,
\* and every other qualifying image is a candidate.
C1_PoolIsListingMinusPrevious ==
    \A p \in Procs :
        Scanned(p) =>
            /\ \A f \in pool[p] : ~PathEq(f, prev[p])
            /\ \A f \in Qualifying(listing[p]) :
                 ~PathEq(f, prev[p]) => f \in pool[p]
            /\ pool[p] \subseteq Qualifying(listing[p])

\* C1 witness: the previous selection, spelled with a doubled separator, is in
\* the listing and is left out, and the other image is the pool.
C1_Witness ==
    /\ Scanned(1)
    /\ prev[1] = WallDir \o <<"/", "/">> \o APng
    /\ Qualifying(listing[1]) = {Join(WallDir, APng), Join(WallDir, BJpg)}
    /\ pool[1] = {Join(WallDir, BJpg)}

----------------------------------------------------------------------------
(* C2 *)

\* C2: when the pool is empty after the scan, the run goes nowhere but to its
\* normal end: nothing is selected, the change command is not invoked, the
\* cache file is as it was read, and at the end the "no candidates" notice has
\* been dispatched and nothing has panicked.
C2_EmptyPoolEndsQuietly ==
    \A p \in Procs :
        (Scanned(p) /\ pool[p] = {}) =>
            /\ pc[p] \in {"scanned", "done"}
            /\ selected[p] = NoPath
            /\ status[p] = "none"
            /\ ~InLog(p, "exec_success") /\ ~InLog(p, "exec_failure")
            /\ ~InLog(p, "write")
            /\ cache = cacheAtRead[p]
            /\ fatal[p] = "none"
            /\ pc[p] = "done" => notice[p] \in {"nocand_shown", "nocand_failed"}

\* C2 witness: the directory holds one qualifying image, it is the previous
\* selection, and the run has ended normally with the notice.
C2_Witness ==
    /\ pc[1] = "done"
    /\ Qualifying(listing[1]) = {Join(WallDir, APng)}
    /\ prev[1] = Join(WallDir, APng)
    /\ pool[1] = {}
    /\ notice[1] = "nocand_shown"

----------------------------------------------------------------------------
(* C3 *)

\* C3: when the change command has exited without success, the run has ended
\* normally, the cache file is as the run read it, and no notification has
\* been sent.
C3_FailedApplyLeavesMemory ==
    \A p \in Procs :
        status[p] = "failure" =>
            /\ pc[p] = "done"
            /\ fatal[p] = "none"
            /\ cache = cacheAtRead[p]
            /\ notice[p] = "none"
            /\ ~InLog(p, "write")

\* C3 witness: a run that read a previous selection, picked another image
\* and saw the change command fail.
C3_Witness ==
    /\ status[1] = "failure"
    /\ pc[1] = "done"
    /\ cacheAtRead[1] = File(TRUE, Join(WallDir, APng))
    /\ selected[1] = Join(WallDir, BJpg)
    /\ cache = cacheAtRead[1]

----------------------------------------------------------------------------
(* C4 *)

\* C4: memory round trip.  After update_cache has recorded an image and no
\* write has come since, a run that opens and reads the cache file gets back
\* exactly the path update_cache was given.
C4_RoundTrip ==
    \A p \in Procs :
        (pc[p] = "read" /\ memImage # NoPath /\ cache.openable) =>
            prev[p] = memImage

\* C4, for the paths a Rust String can hold: the value read back is the path
\* written, with nothing added and nothing left of an earlier, longer value.
C4_RoundTripUtf8 ==
    \A p \in Procs :
        (pc[p] = "read" /\ memImage # NoPath /\ cache.openable
            /\ IsUtf8(memImage)) =>
            prev[p] = memImage

\* C4, what the code does on every path: the lossy conversion is read back.
C4_RoundTripLossy ==
    \A p \in Procs :
        (pc[p] = "read" /\ memImage # NoPath /\ cache.openable) =>
            prev[p] = to_string_lossy(memImage)

----------------------------------------------------------------------------
(* C5 *)

\* C5: when the cache file did not exist as the run read it, the read did not
\* panic and gave the empty string, and the scan excluded nothing: the pool is
\* all the qualifying images of the listing.
C5_MissingMemoryExcludesNothing ==
    \A p \in Procs :
        (pc[p] \notin {"idle", "main"} /\ ~cacheAtRead[p].exists) =>
            /\ fatal[p] # "read"
            /\ prev[p] = <<>>
            /\ Scanned(p) => pool[p] = Qualifying(listing[p])

\* C5 witness: no cache file, two qualifying images, both candidates.
C5_Witness ==
    /\ Scanned(1)
    /\ ~cacheAtRead[1].exists
    /\ prev[1] = <<>>
    /\ pool[1] = {Join(WallDir, APng), Join(WallDir, BJpg)}

----------------------------------------------------------------------------
(* C6 *)

\* The entry is not the one the previous selection names.
NotPrevious(p, e) == ~PathEq(PathOf(e), prev[p])

\* C6 as claimed: an entry (other than the previous selection) is a candidate
\* if and only if it is a regular file with one of the five lowercase
\* extensions.
C6_RegularFilesOnly ==
    \A p \in Procs :
        Scanned(p) =>
            /\ \A e \in listing[p] :
                 PathOf(e) \in pool[p] <=>
                    /\ e.kind = "file"
                    /\ HasImageExtension(e.name)
                    /\ NotPrevious(p, e)
            /\ pool[p] \subseteq { PathOf(e) : e \in listing[p] }

\* C6 as amended: an entry (other than the previous selection) is a candidate
\* if and only if it is a regular file, or a symbolic link to one, with one of
\* the five lowercase extensions; every other entry is left out, and the scan
\* raises no error over it.
C6_FilesAndLinksToFiles ==
    \A p \in Procs :
        Scanned(p) =>
            /\ \A e \in listing[p] :
                 PathOf(e) \in pool[p] <=>
                    /\ e.kind \in {"file", "symlink_file"}
                    /\ HasImageExtension(e.name)
                    /\ NotPrevious(p, e)
            /\ pool[p] \subseteq { PathOf(e) : e \in listing[p] }
            /\ fatal[p] \notin {"read", "dir"}

\* C6 witness: an uppercase extension beside a link to a regular file; the
\* link is the one candidate.
C6_Witness ==
    /\ Scanned(1)
    /\ listing[1] = { Entry(<<"c", ".", "P", "N", "G">>, "file"),
                      Entry(<<"e", ".", "b", "m", "p">>, "symlink_file") }
    /\ pool[1] = { Join(WallDir, <<"e", ".", "b", "m", "p">>) }

----------------------------------------------------------------------------
(* C7 *)

\* What holds of a run that a fatal condition ended, whichever it was: it is
\* ended for good, and nothing of the steps after the failing one happened.
FatalStopsRun(p) ==
    /\ fatal[p] # "none" <=> pc[p] = "panicked"
    /\ fatal[p] = "read" =>
         /\ log[p] = <<>>
         /\ status[p] = "none" /\ notice[p] = "none"
         /\ cache = cacheAtRead[p]
    /\ fatal[p] = "dir" =>
         /\ log[p] = <<"read">>
         /\ status[p] = "none" /\ notice[p] = "none"
         /\ cache = cacheAtRead[p]
    /\ fatal[p] = "spawn" =>
         /\ log[p] = <<"read", "scan", "pick">>
         /\ status[p] = "none" /\ notice[p] = "none"
         /\ cache = cacheAtRead[p]
    /\ fatal[p] \in {"create", "write"} =>
         /\ log[p] = <<"read", "scan", "pick", "exec_success">>
         /\ notice[p] = "none"
    /\ notice[p] \in {"changed_shown", "changed_failed"} =>
         /\ InLog(p, "write")
         /\ memImage = selected[p]

\* C7 as claimed: every fatal condition ends the run before any later step,
\* and a cache file that exists and cannot be read (it cannot be opened, or
\* its bytes are not a string) is one of them.
C7_UnreadableMemoryIsFatal ==
    \A p \in Procs :
        /\ FatalStopsRun(p)
        /\ (pc[p] \notin {"idle", "main"} /\ cacheAtRead[p].exists
              /\ (~cacheAtRead[p].openable \/ ~IsUtf8(cacheAtRead[p].bytes)))
             => fatal[p] = "read"

\* C7 as amended: every fatal condition ends the run before any later step;
\* the cache file is one when it was opened and could not be read.  A cache
\* file that exists and cannot be opened is read as the empty string, and
\* the run goes on.
C7_FatalEndsRun ==
    \A p \in Procs :
        /\ FatalStopsRun(p)
        /\ (pc[p] \notin {"idle", "main"} /\ cacheAtRead[p].exists
              /\ cacheAtRead[p].openable /\ ~IsUtf8(cacheAtRead[p].bytes))
             => fatal[p] = "read"
        /\ (pc[p] \notin {"idle", "main"} /\ ~cacheAtRead[p].openable)
             => (fatal[p] # "read" /\ prev[p] = <<>>)

\* C7 witness: the change command succeeded, write_all failed on the
\* truncated cache file, and the run ended there without a notification.
C7_Witness ==
    /\ pc[1] = "panicked"
    /\ fatal[1] = "write"
    /\ status[1] = "success"
    /\ notice[1] = "none"
    /\ cacheAtRead[1] = File(TRUE, Join(WallDir, APng))
    /\ cache = File(TRUE, <<>>)

----------------------------------------------------------------------------
(* C8 *)

\* C8: in the log of a run the pick comes after the read, the write after a
\* successful exit of the change command, the "changed" notification after
\* the write; and a notification that could not be dispatched leaves the run
\* ended normally, with the cache file holding what update_cache writes for
\* the image applied.
C8_StepsInOrder ==
    \A p \in Procs :
        /\ \A i \in 1..Len(log[p]) :
             /\ log[p][i] \in {"scan", "pick"} => Before(p, "read", i)
             /\ log[p][i] = "pick" => Before(p, "scan", i)
             /\ log[p][i] = "write" => Before(p, "exec_success", i)
             /\ log[p][i] \in {"notify_shown", "notify_failed"} =>
                  Before(p, "write", i)
             /\ log[p][i] \in {"exec_success", "exec_failure"} =>
                  Before(p, "pick", i)
        /\ InLog(p, "exec_failure") => ~InLog(p, "write")
        /\ notice[p] = "changed_failed" =>
             /\ pc[p] = "done"
             /\ fatal[p] = "none"
             /\ memImage = selected[p]
             /\ cache.exists
             /\ cache.bytes = cache_bytes(selected[p])

\* C8 witness: a whole run whose notification could not be dispatched.
C8_Witness ==
    /\ pc[1] = "done"
    /\ notice[1] = "changed_failed"
    /\ log[1] = <<"read", "scan", "pick", "exec_success", "write", "notify_failed">>
    /\ cache.bytes = Join(WallDir, BJpg)
    /\ cacheAtRead[1] = File(TRUE, Join(WallDir, APng))

----------------------------------------------------------------------------
(* C9 *)

\* C9: in runs that do not overlap, a run that could open the cache file
\* never hands the change command the image the memory recorded when the run
\* began, so that two successful applies in a row never set the same image.
C9_NeverRepeats ==
    \A p \in Procs : cacheAtRead[p].openable => ~repeated[p]

\* C9, for the paths a Rust String can hold.
C9_NeverRepeatsUtf8 ==
    \A p \in Procs :
        (cacheAtRead[p].openable /\ IsUtf8(selected[p])) => ~repeated[p]

----------------------------------------------------------------------------
(* C10 *)

\* C10: nothing orders one instance's read of the cache file and another's
\* write of it.  An instance about to hand, or having handed, the change
\* command the very image the readable cache file now names read that file
\* before it was written: only a write by another instance, after the read,
\* lets an instance repeat the image in memory.
C10_RepeatOnlyByOverlap ==
    \A p \in Procs :
        (pc[p] \in {"chosen", "applied"} /\ cache.exists /\ cache.openable
            /\ PathEq(selected[p], cache.bytes)) =>
            cache # cacheAtRead[p]

\* C10 witness: an instance read that there was no cache file, the other
\* instance applied an image and wrote it, and the first applied that image.
C10_Witness ==
    \E p \in Procs : \E q \in Procs \ {p} :
        /\ repeated[p]
        /\ pc[p] = "applied"
        /\ ~cacheAtRead[p].exists
        /\ prev[p] = <<>>
        /\ IsUtf8(selected[p])
        /\ InLog(q, "write")
        /\ selected[q] = selected[p]
        /\ cache.bytes = selected[p]

====
